---- MODULE Spec2Model ----
(***************************************************************************)
(* A model of gc.cpp, a mark-and-sweep collector over a fixed heap of      *)
(* two-field objects, together with a client that obeys the API rule of    *)
(* gctests.cpp: it stores, and writes through, only handles that are       *)
(* reachable from root or were returned by the most recent allocate().     *)
(*                                                                         *)
(* heap[i] is modelled as slot i, a pointer as a slot number or nullptr.   *)
(* allocate() is modelled statement by statement: pc is the position of    *)
(* the one thread of control inside allocate(), "idle" when it is in the   *)
(* client.  The recursion of mark() is the explicit call stack `stack`.    *)
(***************************************************************************)
EXTENDS Integers, Sequences, FiniteSets, TLC

\* gc.cpp:9 has 10000 slots; the model is checked for small heaps.
HEAP_SIZE == 3

\* the client sets a field that is null only while fewer than MaxEdges
\* fields of the heap are set
MaxEdges == 2

\* the operations of the client are recorded up to the MaxHist-th after
\* init_heap()
MaxHist == 5

nullptr == 0 - 1

Slots == 0 .. (HEAP_SIZE - 1)
Ref == Slots \cup {nullptr}

VARIABLES
    head,        \* head[s]   = heap[s].head
    tail,        \* tail[s]   = heap[s].tail
    marked,      \* marked[s] = heap[s].marked
    root,        \* Object* root
    free_list,   \* Object* free_list
    pc,          \* position of control: "start", "idle", or a place in allocate()
    stack,       \* the activation records of mark(): <<p, line>>
    ret,         \* the value returned by the most recent allocate()
    entry,       \* the state at the most recent call of allocate(): root, the
                 \* fields, free_list, ret, whether a slot not reachable from
                 \* root had its mark bit set (stale), and the number of
                 \* collections of the call
    client,      \* what the client is running: any operations, or a loop of gctests.cpp
    hist,        \* the operations of the client since init_heap(), or Beyond
    run          \* the slots allocate() has returned since the last collection
                 \* began, in order

vars == <<head, tail, marked, root, free_list, pc, stack, ret, entry, client, hist,
          run>>

heapvars == <<head, tail, marked, root, free_list>>

----------------------------------------------------------------------------
(* Reachability through head and tail.                                      *)

Succ(hd, tl, s) == {hd[s], tl[s]} \ {nullptr}

RECURSIVE ReachFrom(_, _, _, _)
ReachFrom(hd, tl, seen, frontier) ==
    IF frontier = {} THEN seen
    ELSE LET new == (UNION {Succ(hd, tl, s) : s \in frontier}) \ (seen \cup frontier)
         IN  ReachFrom(hd, tl, seen \cup frontier, new)

\* the slots reachable from r through the fields hd, tl
Reach(r, hd, tl) == IF r = nullptr THEN {} ELSE ReachFrom(hd, tl, {}, {r})

Live == Reach(root, head, tail)

\* the slots of the list that starts at fl and is linked through tl,
\* in order; the walk stops after HEAP_SIZE + 1 slots
RECURSIVE ListFrom(_, _, _)
ListFrom(tl, fl, n) ==
    IF fl = nullptr \/ n = 0 THEN <<>>
    ELSE <<fl>> \o ListFrom(tl, tl[fl], n - 1)

FreeSeq == ListFrom(tail, free_list, HEAP_SIZE + 1)
Range(seq) == {seq[k] : k \in 1 .. Len(seq)}
FreeSet == Range(FreeSeq)

----------------------------------------------------------------------------
(* The collector.                                                           *)

NoEntry == [root |-> nullptr, head |-> <<>>, tail |-> <<>>, stale |-> FALSE,
            free_list |-> nullptr, ret |-> nullptr,
            collections |-> 0, called |-> FALSE]

\* add_to_free_list without "p->tail = free_list"
add_to_free_list_NoLink(tl, fl, p) ==
    [tail |-> tl, free_list |-> p]

\* add_to_free_list(p): the new values of tail and free_list
add_to_free_list(tl, fl, p) ==
    [tail |-> [tl EXCEPT ![p] = fl], free_list |-> p]

\* for (i = k; i < HEAP_SIZE; i++) add_to_free_list(&heap[i]);
RECURSIVE AddAllFrom(_, _, _)
AddAllFrom(tl, fl, k) ==
    IF k >= HEAP_SIZE THEN [tail |-> tl, free_list |-> fl]
    ELSE LET r == add_to_free_list(tl, fl, k)
         IN  AddAllFrom(r.tail, r.free_list, k + 1)

\* got:   the slots allocate() has returned in the running loop
\* cycle: the loop started with two unreachable objects that point to each
\*        other through tail
\* the client outside the loops of gctests.cpp
AnyOps == [proc |-> "any", at |-> "call", got |-> <<>>, cycle |-> FALSE,
           orig |-> nullptr, gcs |-> 0]

Beyond == <<<<"beyond">>>>

\* hist with the operation e added
Log(e) == IF hist = Beyond \/ Len(hist) >= MaxHist THEN Beyond ELSE Append(hist, e)

\* the client when allocate() returns r to it
Returned(r) ==
    CASE client.proc = "any"   -> AnyOps
      [] client.proc = "fill"  -> [client EXCEPT !.at = "ret"]
      [] client.proc = "drain" ->
            [client EXCEPT !.got = Append(@, r),
                           !.at = IF Len(client.got) + 1 >= HEAP_SIZE THEN "end" ELSE "call"]
      [] client.proc = "force" ->
            IF client.at = "last"
              THEN [client EXCEPT !.at = "end"]
              ELSE [client EXCEPT !.at = "ret", !.gcs = @ + entry.collections]

Init ==
    /\ head = [s \in Slots |-> nullptr]
    /\ tail = [s \in Slots |-> nullptr]
    /\ marked = [s \in Slots |-> FALSE]
    /\ root = nullptr
    /\ free_list = nullptr
    /\ pc = "start"
    /\ stack = <<>>
    /\ ret = nullptr
    /\ entry = NoEntry
    /\ client = AnyOps
    /\ hist = <<>>
    /\ run = <<>>

\* main() calls init_heap() once, before anything else
init_heap ==
    /\ pc = "start"
    /\ LET r == AddAllFrom(tail, free_list, 0)
       IN  /\ tail' = r.tail
           /\ free_list' = r.free_list
    /\ pc' = "idle"
    /\ UNCHANGED <<head, marked, root, stack, ret, entry, client, hist>>
    /\ UNCHANGED run

\* allocate() collecting at every call, line 33 without its test
allocate_call_AlwaysCollects ==
    /\ pc = "idle"
    /\ client.at \in {"call", "end", "last"}
    /\ client' = IF client.at = "end" THEN AnyOps ELSE client
    /\ entry' = [root |-> root, head |-> head, tail |-> tail,
                 stale |-> \E s \in Slots \ Live : marked[s],
                 free_list |-> free_list, ret |-> ret,
                 collections |-> 0, called |-> TRUE]
    /\ pc' = "clear"
    /\ UNCHANGED <<head, tail, marked, root, free_list, stack, ret, hist>>
    /\ UNCHANGED run

\* the call of allocate() and the test of line 33
allocate_call ==
    /\ pc = "idle"
    /\ client.at \in {"call", "end", "last"}
    /\ client' = IF client.at = "end" THEN AnyOps ELSE client
    /\ entry' = [root |-> root, head |-> head, tail |-> tail,
                 stale |-> \E s \in Slots \ Live : marked[s],
                 free_list |-> free_list, ret |-> ret,
                 collections |-> 0, called |-> TRUE]
    /\ IF free_list = nullptr
         THEN pc' = "clear"
         ELSE pc' = "pop"
    /\ UNCHANGED <<head, tail, marked, root, free_list, stack, ret, hist>>
    /\ UNCHANGED run

\* the loop of lines 34-35 left out
ClearFrom_Skip(mk, k) == mk

\* lines 34-35: for (i = k; i < HEAP_SIZE; i++) heap[i].marked = false;
RECURSIVE ClearFrom(_, _)
ClearFrom(mk, k) ==
    IF k >= HEAP_SIZE THEN mk
    ELSE ClearFrom([mk EXCEPT ![k] = FALSE], k + 1)

\* line 36 marking nothing
MarkStart_Null == <<<<nullptr, 25>>>>

\* line 36: the first activation of mark(), mark(root), at its first line
MarkStart == <<<<root, 25>>>>

\* lines 34-36: the loop that clears the mark bits, then the call mark(root)
clear_marks ==
    /\ pc = "clear"
    /\ marked' = ClearFrom(marked, 0)
    /\ pc' = "mark"
    /\ stack' = MarkStart
    /\ entry' = [entry EXCEPT !.collections = @ + 1]
    /\ UNCHANGED <<head, tail, root, free_list, ret, client, hist>>
    /\ run' = <<>>

Top == stack[Len(stack)]
Pop == SubSeq(stack, 1, Len(stack) - 1)
SetLine(n) == [stack EXCEPT ![Len(stack)] = <<Top[1], n>>]

\* line 25 without the test of the mark bit
mark_test_NoMarkedCheck(p) ==
    IF p = nullptr THEN Pop ELSE SetLine(27)

\* line 25: if (p == nullptr || p->marked) return;
mark_test(p) ==
    IF p = nullptr \/ marked[p] THEN Pop ELSE SetLine(27)

\* both recursive calls follow head
mark_arg_HeadOnly(p, line) == head[p]

\* both recursive calls follow tail
mark_arg_TailOnly(p, line) == tail[p]

\* the argument of the recursive call of line 28, mark(p->head), and of
\* line 29, mark(p->tail)
mark_arg(p, line) == IF line = 28 THEN head[p] ELSE tail[p]

\* one statement of the running activation of mark(); when the outermost
\* activation returns, allocate() goes on at line 37
mark_step ==
    /\ pc = "mark"
    /\ stack # <<>>
    /\ LET p == Top[1]
           line == Top[2]
       IN  CASE line = 25 ->
                  /\ stack' = mark_test(p)
                  /\ UNCHANGED marked
             [] line = 27 ->
                  /\ marked' = [marked EXCEPT ![p] = TRUE]
                  /\ stack' = SetLine(28)
             [] line = 28 ->
                  /\ stack' = Append(SetLine(29), <<mark_arg(p, 28), 25>>)
                  /\ UNCHANGED marked
             [] line = 29 ->
                  /\ stack' = Append(SetLine(30), <<mark_arg(p, 29), 25>>)
                  /\ UNCHANGED marked
             [] line = 30 ->
                  /\ stack' = Pop
                  /\ UNCHANGED marked
    /\ UNCHANGED <<head, tail, root, free_list, pc, ret, entry, client, hist>>
    /\ UNCHANGED run

\* the sweep loop without the test of the mark bit
RECURSIVE SweepFrom_AllSlots(_, _, _, _)
SweepFrom_AllSlots(tl, fl, mk, k) ==
    IF k >= HEAP_SIZE THEN [tail |-> tl, free_list |-> fl]
    ELSE LET r == add_to_free_list(tl, fl, k)
         IN  SweepFrom_AllSlots(r.tail, r.free_list, mk, k + 1)

\* the sweep loop starting one slot late
RECURSIVE SweepFrom_SkipFirst(_, _, _, _)
SweepFrom_SkipFirst(tl, fl, mk, k) ==
    IF k >= HEAP_SIZE THEN [tail |-> tl, free_list |-> fl]
    ELSE IF ~mk[k] /\ k > 0
           THEN LET r == add_to_free_list(tl, fl, k)
                IN  SweepFrom_SkipFirst(r.tail, r.free_list, mk, k + 1)
           ELSE SweepFrom_SkipFirst(tl, fl, mk, k + 1)

\* lines 38-40: for (i = k; i < HEAP_SIZE; i++)
\*                  if (!heap[i].marked) add_to_free_list(&heap[i]);
RECURSIVE SweepFrom(_, _, _, _)
SweepFrom(tl, fl, mk, k) ==
    IF k >= HEAP_SIZE THEN [tail |-> tl, free_list |-> fl]
    ELSE IF ~mk[k]
           THEN LET r == add_to_free_list(tl, fl, k)
                IN  SweepFrom(r.tail, r.free_list, mk, k + 1)
           ELSE SweepFrom(tl, fl, mk, k + 1)

\* lines 37-40, after mark(root) has returned: free_list = nullptr and
\* the sweep loop
sweep ==
    /\ pc = "mark"
    /\ stack = <<>>
    /\ LET r == SweepFrom(tail, nullptr, marked, 0)
       IN  /\ tail' = r.tail
           /\ free_list' = r.free_list
    /\ pc' = "check"
    /\ UNCHANGED <<head, marked, root, stack, ret, entry, client, hist>>
    /\ UNCHANGED run

\* lines 41-42: if (free_list == nullptr) return nullptr;
check_empty ==
    /\ pc = "check"
    /\ IF free_list = nullptr
         THEN /\ ret' = nullptr
              /\ pc' = "idle"
              /\ client' = Returned(nullptr)
              /\ hist' = Log(<<"allocate", nullptr>>)
         ELSE /\ pc' = "pop"
              /\ UNCHANGED <<ret, client, hist>>
    /\ UNCHANGED <<head, tail, marked, root, free_list, stack, entry>>
    /\ UNCHANGED run

\* lines 44-48 without "free_list = free_list->tail"
pop_free_NoAdvance ==
    /\ pc = "pop"
    /\ LET p == free_list
       IN  /\ head' = [head EXCEPT ![p] = nullptr]
           /\ tail' = [tail EXCEPT ![p] = nullptr]
           /\ ret' = p
           /\ client' = Returned(p)
           /\ hist' = Log(<<"allocate", p>>)
    /\ pc' = "idle"
    /\ UNCHANGED <<marked, root, free_list, stack, entry>>
    /\ run' = Append(run, free_list)

\* lines 44-48 without "p->head = nullptr"
pop_free_KeepsHead ==
    /\ pc = "pop"
    /\ LET p == free_list
       IN  /\ free_list' = tail[p]
           /\ tail' = [tail EXCEPT ![p] = nullptr]
           /\ ret' = p
           /\ client' = Returned(p)
           /\ hist' = Log(<<"allocate", p>>)
    /\ pc' = "idle"
    /\ UNCHANGED <<head, marked, root, stack, entry>>
    /\ run' = Append(run, free_list)

\* lines 44-48: pop the first slot of the free list, clear its fields,
\* return it
pop_free ==
    /\ pc = "pop"
    /\ LET p == free_list
       IN  /\ free_list' = tail[p]
           /\ head' = [head EXCEPT ![p] = nullptr]
           /\ tail' = [tail EXCEPT ![p] = nullptr]
           /\ ret' = p
           /\ client' = Returned(p)
           /\ hist' = Log(<<"allocate", p>>)
    /\ pc' = "idle"
    /\ UNCHANGED <<marked, root, stack, entry>>
    /\ run' = Append(run, free_list)

----------------------------------------------------------------------------
(* The client.                                                              *)

\* the handles the client may use: those reachable from root and the one
\* returned by the most recent allocate()
Handles == Live \cup ({ret} \ {nullptr})

\* the number of fields that are set, the links of the free list aside
Edges == Cardinality({s \in Slots : head[s] # nullptr})
         + Cardinality({s \in Slots \ FreeSet : tail[s] # nullptr})

\* root = v
set_root ==
    /\ pc = "idle"
    /\ client.proc = "any" \/ client.at = "end"
    /\ \E v \in Handles \cup {nullptr} :
          /\ v # root
          /\ root' = v
          /\ hist' = Log(<<"root", v>>)
    /\ entry' = NoEntry
    /\ client' = AnyOps
    /\ UNCHANGED <<head, tail, marked, free_list, pc, stack, ret>>
    /\ UNCHANGED run

\* o->head = v
set_head ==
    /\ pc = "idle"
    /\ client.proc = "any" \/ client.at = "end"
    /\ \E o \in Handles, v \in Handles \cup {nullptr} :
          /\ v # head[o]
          /\ head[o] = nullptr => Edges < MaxEdges
          /\ head' = [head EXCEPT ![o] = v]
          /\ hist' = Log(<<"head", o, v>>)
    /\ entry' = NoEntry
    /\ client' = AnyOps
    /\ UNCHANGED <<tail, marked, root, free_list, pc, stack, ret>>
    /\ UNCHANGED run

\* o->tail = v
set_tail ==
    /\ pc = "idle"
    /\ client.proc = "any" \/ client.at = "end"
    /\ \E o \in Handles, v \in Handles \cup {nullptr} :
          /\ v # tail[o]
          /\ tail[o] = nullptr => Edges < MaxEdges
          /\ tail' = [tail EXCEPT ![o] = v]
          /\ hist' = Log(<<"tail", o, v>>)
    /\ entry' = NoEntry
    /\ client' = AnyOps
    /\ UNCHANGED <<head, marked, root, free_list, pc, stack, ret>>
    /\ UNCHANGED run

\* gctests.cpp:116 and :241, root = nullptr before the loop
\*     for (int i = 0; i < HEAP_SIZE; i++) root = new_object(nullptr, root);
fill_begin ==
    /\ pc = "idle"
    /\ client.proc = "any" \/ client.at = "end"
    /\ root' = nullptr
    /\ client' = [proc |-> "fill", at |-> "call", got |-> <<>>,
                  cycle |-> \E a, b \in Slots \ FreeSet :
                               a # b /\ tail[a] = b /\ tail[b] = a,
                  orig |-> nullptr, gcs |-> 0]
    /\ entry' = NoEntry
    /\ hist' = Beyond
    /\ UNCHANGED <<head, tail, marked, free_list, pc, stack, ret>>
    /\ UNCHANGED run

\* root = new_object(nullptr, root), after its call of allocate():
\* assert(obj); obj->head = nullptr; obj->tail = root; root = obj
fill_link ==
    /\ pc = "idle"
    /\ client.proc = "fill"
    /\ client.at = "ret"
    /\ IF ret = nullptr
         THEN /\ client' = [client EXCEPT !.at = "abort"]
              /\ UNCHANGED <<head, tail, root>>
         ELSE /\ head' = [head EXCEPT ![ret] = nullptr]
              /\ tail' = [tail EXCEPT ![ret] = root]
              /\ root' = ret
              /\ client' = [client EXCEPT
                              !.got = Append(@, ret),
                              !.at = IF Len(client.got) + 1 >= HEAP_SIZE THEN "end" ELSE "call"]
    /\ entry' = NoEntry
    /\ UNCHANGED <<marked, free_list, pc, stack, ret, hist>>
    /\ UNCHANGED run

\* gctests.cpp:122-125: allocate() has just returned null; root = nullptr,
\* and the client goes on calling allocate()
drain_begin ==
    /\ pc = "idle"
    /\ client.proc = "any" \/ client.at = "end"
    /\ entry.called
    /\ ret = nullptr
    /\ Live = Slots
    /\ root' = nullptr
    /\ client' = [proc |-> "drain", at |-> "call", got |-> <<>>, cycle |-> FALSE,
                  orig |-> nullptr, gcs |-> 0]
    /\ entry' = NoEntry
    /\ hist' = Beyond
    /\ UNCHANGED <<head, tail, marked, free_list, pc, stack, ret>>
    /\ UNCHANGED run

Next == init_heap \/ allocate_call \/ clear_marks \/ mark_step \/ sweep
        \/ check_empty \/ pop_free
        \/ set_root \/ set_head \/ set_tail
        \/ fill_begin \/ fill_link \/ drain_begin

Spec == Init /\ [][Next]_vars

\* gctests.cpp:148-160, force_gc() up to its loop: Object* orig_root = root;
\* the loop sets fields, so it starts within the client's bound
force_begin ==
    /\ pc = "idle"
    /\ client.proc = "any" \/ client.at = "end"
    /\ Edges < MaxEdges
    /\ client' = [proc |-> "force", at |-> "call", got |-> <<>>, cycle |-> FALSE,
                  orig |-> root, gcs |-> 0]
    /\ entry' = NoEntry
    /\ hist' = Beyond
    /\ UNCHANGED <<head, tail, marked, root, free_list, pc, stack, ret, run>>

\* gctests.cpp:160-165, after a call of allocate() in the loop condition:
\*     while (Object* obj = allocate()) { obj->tail = root; root = obj; }
\*     root = orig_root;
\* and the client goes on to the last allocate()
force_link ==
    /\ pc = "idle"
    /\ client.proc = "force"
    /\ client.at = "ret"
    /\ IF ret = nullptr
         THEN /\ root' = client.orig
              /\ client' = [client EXCEPT !.at = "last"]
              /\ UNCHANGED tail
         ELSE /\ tail' = [tail EXCEPT ![ret] = root]
              /\ root' = ret
              /\ client' = [client EXCEPT !.got = Append(@, ret), !.at = "call"]
    /\ entry' = NoEntry
    /\ UNCHANGED <<head, marked, free_list, pc, stack, ret, hist, run>>

NextForce == Next \/ force_begin \/ force_link

\* the program with a client that may call force_gc()
SpecForce == Init /\ [][NextForce]_vars

\* the mark in hist of a run that does not call init_heap()
NoInit == <<"no init_heap">>

\* a client that calls allocate() without having called init_heap(): the
\* call and the test of line 33
allocate_before_init ==
    /\ pc = "start"
    /\ entry' = [root |-> root, head |-> head, tail |-> tail,
                 stale |-> \E s \in Slots \ Live : marked[s],
                 free_list |-> free_list, ret |-> ret,
                 collections |-> 0, called |-> TRUE]
    /\ IF free_list = nullptr
         THEN pc' = "clear"
         ELSE pc' = "pop"
    /\ hist' = <<NoInit>>
    /\ UNCHANGED <<head, tail, marked, root, free_list, stack, ret, client, run>>

NextNoInit == Next \/ allocate_before_init

\* the program with a client that may leave out init_heap()
SpecNoInit == Init /\ [][NextNoInit]_vars

----------------------------------------------------------------------------
(* Properties.                                                              *)

\* allocate() has returned and the client has done nothing since
JustReturned == pc = "idle" /\ entry.called

\* the slots that were reachable from root when allocate() was called
LiveAtCall == Reach(entry.root, entry.head, entry.tail)

NoDuplicates(seq) == \A j, k \in 1 .. Len(seq) : j # k => seq[j] # seq[k]

\* C1: after a call of allocate(), root and the head and tail of every slot
\* that was reachable from root at the call are what they were at the call.
C1_RootProtection ==
    JustReturned =>
        /\ root = entry.root
        /\ \A s \in LiveAtCall :
              head[s] = entry.head[s] /\ tail[s] = entry.tail[s]

\* a call that collected and returned a slot, with two or more live slots
C1_Witness ==
    /\ JustReturned
    /\ entry.collections = 1
    /\ ret # nullptr
    /\ Cardinality(LiveAtCall) >= 2

\* C2: allocate() never returns a slot that was reachable from root at the
\* call.
C2_NeverReturnsLive ==
    (JustReturned /\ ret # nullptr) => ret \notin LiveAtCall

\* a call with a root that collected and returned another slot
C2_Witness ==
    /\ JustReturned
    /\ entry.root # nullptr
    /\ entry.collections = 1
    /\ ret # nullptr
    /\ root = entry.root

\* C3: when every slot is reachable from root at the call, allocate()
\* returns null and leaves root and all fields as they were, so that every
\* slot is reachable again at the next call.
C3_Exhaustion ==
    (JustReturned /\ LiveAtCall = Slots) =>
        /\ ret = nullptr
        /\ root = entry.root /\ head = entry.head /\ tail = entry.tail
        /\ Live = Slots

\* a failed call on a heap whose slots are all chained through tail from root
C3_Witness ==
    /\ JustReturned
    /\ LiveAtCall = Slots
    /\ ret = nullptr
    /\ \A s \in Slots : head[s] = nullptr
    /\ Cardinality({s \in Slots : tail[s] = nullptr}) = 1

\* C4: allocate() returns null only if every slot was reachable from root
\* at the call; with some slot unreachable it returns a slot.
C4_NoSpuriousFailure ==
    JustReturned => (ret = nullptr <=> LiveAtCall = Slots)

\* a call that had to collect with exactly one slot unreachable, and
\* returned a slot
C4_Witness ==
    /\ JustReturned
    /\ entry.collections = 1
    /\ Cardinality(LiveAtCall) = HEAP_SIZE - 1
    /\ ret # nullptr

\* the scenario of C5 has just ended: on a fresh heap, allocate A, root = A,
\* allocate B, A.head = B, allocate C
Scenario5(A, B, C) ==
    /\ pc = "idle"
    /\ A # nullptr /\ B # nullptr
    /\ hist = << <<"allocate", A>>, <<"root", A>>, <<"allocate", B>>,
                 <<"head", A, B>>, <<"allocate", C>> >>

\* C5 as stated: the third allocation reports null, root is still A and
\* A.head is still B.
C5_ThirdAllocationFails ==
    (pc = "idle" /\ Len(hist) = 5) =>
        \A A, B, C \in Ref :
            Scenario5(A, B, C) => (C = nullptr /\ root = A /\ head[A] = B)

\* C5, amended: the third allocation returns a slot other than A and B,
\* root is still A and A.head is still B.
C5_ThirdAllocationSucceeds ==
    (pc = "idle" /\ Len(hist) = 5) =>
        \A A, B, C \in Ref :
            Scenario5(A, B, C) =>
                (C # nullptr /\ C # A /\ C # B /\ root = A /\ head[A] = B)

\* the scenario has run
C5_Witness == \E A, B, C \in Ref : Scenario5(A, B, C) /\ A # B

\* C6: after a failed allocate() on a full heap and root = nullptr, the
\* sweep of the next call leaves every slot on the free list once, every
\* further call returns a slot, and HEAP_SIZE calls return every slot.
C6_Recovery ==
    client.proc = "drain" =>
        /\ (pc = "check" /\ client.got = <<>>) =>
              (FreeSet = Slots /\ Len(FreeSeq) = HEAP_SIZE)
        /\ \A k \in 1 .. Len(client.got) : client.got[k] # nullptr
        /\ client.at = "end" => Range(client.got) = Slots

\* the HEAP_SIZE calls after the failure have returned
C6_Witness ==
    /\ client.proc = "drain"
    /\ client.at = "end"
    /\ pc = "idle"
    /\ Len(client.got) = HEAP_SIZE

\* C7: after root = nullptr, HEAP_SIZE allocations that are each chained
\* onto root all succeed and return every slot of the heap exactly once.
C7_GarbageRecycled ==
    client.proc = "fill" =>
        /\ client.at # "abort"
        /\ NoDuplicates(client.got)
        /\ client.at = "end" =>
              (Len(client.got) = HEAP_SIZE /\ Range(client.got) = Slots)

\* the loop has ended, and it started with an unreachable cycle of two
C7_Witness ==
    /\ client.proc = "fill"
    /\ client.at = "end"
    /\ client.cycle

\* the weight of an activation of mark() at a line
Weight(line) ==
    CASE line = 25 -> 2
      [] line = 27 -> 1
      [] line = 28 -> 7
      [] line = 29 -> 4
      [] line = 30 -> 1

RECURSIVE StackWeight(_)
StackWeight(st) ==
    IF st = <<>> THEN 0
    ELSE Weight(st[Len(st)][2]) + StackWeight(SubSeq(st, 1, Len(st) - 1))

\* a natural number that every step inside allocate() makes smaller
Rank ==
    CASE pc = "clear" -> 7 * HEAP_SIZE + 6
      [] pc = "mark"  -> 7 * Cardinality({s \in Slots : ~marked[s]})
                         + StackWeight(stack) + 3
      [] pc = "check" -> 2
      [] pc = "pop"   -> 1
      [] OTHER        -> 0

InAllocate == pc \in {"clear", "mark", "check", "pop"}

\* C8: mark() sets the mark bit only of a slot that is not marked, no mark
\* bit is cleared while mark() runs, and every step inside allocate()
\* decreases Rank, so that mark(root) and allocate() terminate.
C8_MarkTerminates ==
    /\ [](pc = "mark" /\ stack # <<>> /\ Top[2] = 27 => ~marked[Top[1]])
    /\ [][ /\ InAllocate => (Rank' < Rank /\ Rank' >= 0)
           /\ (pc = "mark" /\ pc' = "mark") =>
                 \A s \in Slots : marked[s] => marked'[s] ]_vars

\* mark(root) has returned for a root whose head and tail point to itself
C8_Witness ==
    /\ pc = "check"
    /\ root # nullptr
    /\ head[root] = root
    /\ tail[root] = root

Marked == {s \in Slots : marked[s]}

\* C9: at the end of the sweep, the marked slots are the slots reachable
\* from root, and the free list holds the unmarked slots, each once.
C9_CollectionExact ==
    pc = "check" =>
        /\ Marked = LiveAtCall
        /\ Marked = Live
        /\ FreeSet = Slots \ Marked
        /\ Len(FreeSeq) = Cardinality(FreeSet)
        /\ NoDuplicates(FreeSeq)

\* the end of a sweep that found slots of both kinds, one of them reachable
\* only through head, one only through tail, after a mark bit of an earlier
\* collection was cleared
C9_Witness ==
    /\ pc = "check"
    /\ entry.stale
    /\ Marked # {} /\ Marked # Slots
    /\ \E s \in Marked : head[s] \notin {nullptr, s}
    /\ \E s \in Marked : tail[s] \notin {nullptr, s}

\* C10: a slot that allocate() returns has head and tail null.
C10_ReturnedFieldsNull ==
    (JustReturned /\ ret # nullptr) =>
        (head[ret] = nullptr /\ tail[ret] = nullptr)

\* a call that collected and returned a slot whose head and tail were set
C10_Witness ==
    /\ JustReturned
    /\ ret # nullptr
    /\ entry.collections = 1
    /\ entry.head[ret] # nullptr
    /\ entry.tail[ret] # nullptr

\* C12: a call of allocate() collects once if the free list is empty when
\* it starts and not at all otherwise; a call that starts with a free list
\* that is not empty changes no mark bit, and no field of a slot other than
\* the one it pops.
C12_LazyCollection ==
    /\ [](JustReturned =>
            /\ entry.collections = IF entry.free_list = nullptr THEN 1 ELSE 0
            /\ entry.free_list # nullptr =>
                  /\ ret = entry.free_list
                  /\ \A s \in Slots \ {ret} :
                        head[s] = entry.head[s] /\ tail[s] = entry.tail[s])
    /\ [][ ( \/ (pc = "idle" /\ pc' = "pop")
             \/ (pc = "pop" /\ entry.collections = 0) ) =>
                 marked' = marked ]_vars

\* a call without collection has returned, with mark bits set and a field
\* of another slot set
C12_Witness ==
    /\ JustReturned
    /\ entry.free_list # nullptr
    /\ entry.collections = 0
    /\ Marked # {}
    /\ \E s \in Slots \ {ret} : head[s] # nullptr

\* C13: the free list is a chain through tail in which no slot occurs
\* twice, no slot of it is reachable from root, and the slots of the free
\* list and the slots reachable from root are together at most HEAP_SIZE.
C13_Conservation ==
    /\ Len(FreeSeq) <= HEAP_SIZE
    /\ NoDuplicates(FreeSeq)
    /\ FreeSet \cap Live = {}
    /\ Len(FreeSeq) + Cardinality(Live) <= HEAP_SIZE

\* after a collection: a free slot, a reachable slot, and a slot that is
\* neither
C13_Witness ==
    /\ pc = "idle"
    /\ Marked # {}
    /\ FreeSet # {}
    /\ Live # {}
    /\ Len(FreeSeq) + Cardinality(Live) < HEAP_SIZE

\* the slots that count as live between two operations: those reachable
\* from root and the one allocate() has just returned
LiveOrReturned == Live \cup ({ret} \ {nullptr})

\* a slot that allocate() has handed out and that is not connected to
\* anything: its fields are as allocate() left them
Unconnected(s) ==
    s \notin FreeSet /\ s \notin Live /\ head[s] = nullptr /\ tail[s] = nullptr

\* C14 as stated: between operations every slot is either on the free list
\* or live (reachable from root, just returned, or not yet connected to
\* anything), and not both.
C14_FreeOrLive ==
    pc = "idle" =>
        \A s \in Slots :
            (s \in FreeSet) # (s \in LiveOrReturned \/ Unconnected(s))

\* C14, amended: no slot is both on the free list and live; a slot can be
\* neither, until the sweep of the next collection, at whose end every slot
\* is on the free list or reachable from root.
C14_NotFreeAndLive ==
    /\ FreeSet \cap Live = {}
    /\ pc = "idle" => FreeSet \cap LiveOrReturned = {}
    /\ pc = "check" => FreeSet \cup Live = Slots

\* between operations, a slot that is neither on the free list nor live,
\* beside one that is free and one that is live
C14_Witness ==
    /\ pc = "idle"
    /\ FreeSet # {}
    /\ ret # nullptr /\ ret \notin Live
    /\ \E s \in Slots : /\ s \notin FreeSet
                        /\ s \notin LiveOrReturned
                        /\ ~Unconnected(s)

\* C18: no slot of the free list has its mark bit set, and a mark bit is
\* set only by mark(), on a slot reachable from root.
C18_FreeSlotsUnmarked ==
    /\ [](\A s \in FreeSet : ~marked[s])
    /\ [][ \A s \in Slots : (~marked[s] /\ marked'[s]) =>
                                (pc = "mark" /\ s \in Live) ]_vars

\* between operations and after a collection, with a free list that is not
\* empty and mark bits set
C18_Witness ==
    /\ pc = "idle"
    /\ FreeSet # {}
    /\ Marked # {}
    /\ Marked = Live

\* C11: the slots that allocate() returns in consecutive calls of which
\* none but the first collects are pairwise distinct.
C11_NoDuplicateAllocation ==
    /\ NoDuplicates(run)
    /\ \A k \in 1 .. Len(run) : run[k] # nullptr

\* two calls have returned slots since the last collection, the first of
\* them after collecting, and the client has changed root in between
C11_Witness ==
    /\ JustReturned
    /\ Marked # {}
    /\ entry.collections = 0
    /\ Len(run) >= 2
    /\ root = run[1]

\* C15: when exactly one slot is not reachable from root at the call,
\* allocate() returns that slot and leaves root and the fields of the
\* reachable slots as they were, so that the next call finds the same.
C15_NearlyFull ==
    (JustReturned /\ Cardinality(LiveAtCall) = HEAP_SIZE - 1) =>
        /\ ret # nullptr
        /\ Slots \ LiveAtCall = {ret}
        /\ Live = LiveAtCall

\* the call has returned the slot that the call before it had returned,
\* after a collection
C15_Witness ==
    /\ JustReturned
    /\ Cardinality(LiveAtCall) = HEAP_SIZE - 1
    /\ entry.collections = 1
    /\ entry.ret # nullptr
    /\ ret = entry.ret

\* the heap after init_heap() and one call of allocate(), from the static
\* initial values of gc.cpp:10-12
AfterInitAllocate ==
    LET r == AddAllFrom([s \in Slots |-> nullptr], nullptr, 0)
        p == r.free_list
    IN  [head |-> [s \in Slots |-> nullptr],
         tail |-> [r.tail EXCEPT ![p] = nullptr],
         marked |-> [s \in Slots |-> FALSE],
         root |-> nullptr,
         free_list |-> r.tail[p],
         ret |-> p]

\* the first operation of the run, a call of allocate(), has returned
FirstCallReturned ==
    /\ pc = "idle"
    /\ hist \in {<<NoInit, <<"allocate", ret>>>>, << <<"allocate", ret>> >>}

\* C16: a first call of allocate() without init_heap() collects once, puts
\* every slot on the free list once and returns a slot, and leaves the heap
\* as init_heap() followed by allocate() leaves it; the free list stays a
\* chain without repetition and without reachable slots.
C16_AllocateBeforeInit ==
    /\ FirstCallReturned =>
          /\ [head |-> head, tail |-> tail, marked |-> marked, root |-> root,
              free_list |-> free_list, ret |-> ret] = AfterInitAllocate
          /\ ret # nullptr
          /\ FreeSet \cup {ret} = Slots
    /\ (hist = <<NoInit>> /\ pc = "check") =>
          (FreeSet = Slots /\ Len(FreeSeq) = HEAP_SIZE)
    /\ (hist = <<NoInit>> /\ pc = "pop") => entry.collections = 1
    /\ NoDuplicates(FreeSeq)
    /\ FreeSet \cap Live = {}

\* the first call has returned in a run without init_heap()
C16_Witness ==
    /\ FirstCallReturned
    /\ hist[1] = NoInit
    /\ entry.collections = 1

\* C17: the loop of force_gc() obtains at most HEAP_SIZE slots, each one new
\* to the reachable set; when allocate() returns null to it at least one
\* collection has run, every slot is reachable from root and the free list
\* is empty; after root = orig_root the free list is still empty, and the
\* last allocate() collects.
C17_ForceGc ==
    client.proc = "force" =>
        /\ Len(client.got) <= HEAP_SIZE
        /\ NoDuplicates(client.got)
        /\ (pc = "idle" /\ client.at = "call") => Range(client.got) \subseteq Live
        /\ (pc = "idle" /\ client.at = "ret" /\ ret # nullptr) => ret \notin Live
        /\ (pc = "idle" /\ client.at = "ret" /\ ret = nullptr) =>
              /\ Live = Slots
              /\ free_list = nullptr
              /\ client.gcs >= 1
        /\ (pc = "idle" /\ client.at = "last") =>
              (free_list = nullptr /\ root = client.orig)
        /\ (pc = "idle" /\ client.at = "end") =>
              (entry.called /\ entry.collections = 1)

\* force_gc() has returned; its loop collected twice, first recycling
\* garbage, and its last allocate() recycled what the loop had linked
C17_Witness ==
    /\ pc = "idle"
    /\ client.proc = "force"
    /\ client.at = "end"
    /\ client.gcs = 2
    /\ client.orig # nullptr
    /\ client.got # <<>>
    /\ ret # nullptr
    /\ entry.collections = 1

====
